---- MODULE Spec2Model ----
(***************************************************************************)
(* Job lifecycle coordinator of the GWO VRP optimizer backend              *)
(* (backend/app/job_manager.py), together with the parts of database.py    *)
(* and gwo_optimizer.py it drives, the optimizer itself, and the           *)
(* /ws/optimize and POST /jobs endpoints of main.py.                       *)
(*                                                                         *)
(* Threads: API callers (create_job, start_job, run_job_sync, cancel_job)  *)
(* and the workers of the ThreadPoolExecutor.  An atomic step is one       *)
(* database transaction, one critical section of _jobs_lock, or one piece  *)
(* of thread-local computation between two of those.                       *)
(***************************************************************************)
EXTENDS Integers, Sequences, FiniteSets, TLC

\* ---------------------------------------------------------------- bounds
NumJobs == 1          \* job records that create_job may create
MaxRunners == 2       \* JobRunner objects constructed over a behaviour
MaxIter == 1          \* config.numIterations of every job (the API admits 10..1000)

\* ------------------------------------------------------ program constants
PoolSize == 4         \* ThreadPoolExecutor(max_workers=4)

NoRunner == 0

\* JobStatus values; "absent" is a job id with no row in the jobs table
PENDING == "pending"
RUNNING == "running"
COMPLETED == "completed"
FAILED == "failed"
CANCELLED == "cancelled"
ABSENT == "absent"
JobStatus == {PENDING, RUNNING, COMPLETED, FAILED, CANCELLED}
Terminal == {COMPLETED, FAILED, CANCELLED}

VARIABLES
    status,      \* jobs.status column, per job id
    errmsg,      \* jobs.error_message column: TRUE iff a message is recorded
    result,      \* job_results row: the runner whose JobResult is stored, or 0
    active,      \* _active_jobs: job id -> runner, 0 when the key is absent
    queue,       \* work queue of _executor (submitted, not yet taken)
    rJob,        \* JobRunner.job_id (0: runner not constructed)
    rMode,       \* "bg" (start_job) or "sync" (run_job_sync)
    rpc,         \* position of the thread that owns the runner
    rCancelled,  \* JobRunner._cancelled
    rGwo,        \* JobRunner._optimizer._gwo: "none" | "live" | "cancelled"
    rIter,       \* loop variable t of GreyWolfOptimizer.optimize
    cpc,         \* position of the cancel_job call in flight on a job
    cQuiet,      \* history: that call began, and has stayed, on a settled job
    cDirect,     \* history: cancel_job turned the job from Pending to Cancelled
    last,        \* the API call that returned in the step just taken, if any
    gwo,         \* GreyWolfOptimizer objects driven directly, per run
    call,        \* one evaluation of the VRP objective: arguments and values
    ws           \* one /ws/optimize connection: queue, consumer, messages sent

vars == <<status, errmsg, result, active, queue, rJob, rMode, rpc, rCancelled,
          rGwo, rIter, cpc, cQuiet, cDirect, last, gwo, call, ws>>

dbVars == <<status, errmsg, result>>
runnerVars == <<rJob, rMode, rpc, rCancelled, rGwo, rIter>>
jobVars == <<status, errmsg, result, active, queue, rJob, rMode, rpc,
             rCancelled, rGwo, rIter, cpc, cQuiet, cDirect, last>>
algVars == <<gwo, call, ws>>

\* job ids with a slot in the jobs table, JobRunner objects of a behaviour
Jobs == DOMAIN status
Runners == DOMAIN rpc

NoCall == [op |-> "none", job |-> 0, res |-> "none"]
Ret(op, j, res) == [op |-> op, job |-> j, res |-> res]

\* ------------------------------------------------------------- helpers
\* a runner that has been constructed and whose run() has not returned
Live(r) == rpc[r] \notin {"none", "done"}
LiveOn(j) == {r \in Runners : rJob[r] = j /\ Live(r)}
\* positions inside JobRunner.run
RunPcs == {"run", "optimize", "loop", "iter", "postopt", "save",
           "complete", "except", "fin_ok", "fin_cancel", "fin_exc"}
Executing(r) == rpc[r] \in RunPcs
\* pool threads busy with a runner
Busy == {r \in Runners : rMode[r] = "bg" /\ Executing(r)}
\* the next JobRunner object to be constructed
FreeRunner == IF \E r \in Runners : rpc[r] = "none"
              THEN CHOOSE r \in Runners :
                     rpc[r] = "none" /\ \A q \in Runners : q < r => rpc[q] # "none"
              ELSE NoRunner
\* the job is settled: Completed or Failed, and no runner of it is alive
Settled(j) == status[j] \in {COMPLETED, FAILED} /\ LiveOn(j) = {}

\* the module state of job_manager.py and an empty database, for job ids
\* J of which the ids in P already have a Pending row, and runners R
InitJobs(J, P, R) ==
    /\ status = [j \in J |-> IF j \in P THEN PENDING ELSE ABSENT]
    /\ errmsg = [j \in J |-> FALSE]
    /\ result = [j \in J |-> NoRunner]
    /\ active = [j \in J |-> NoRunner]
    /\ queue = <<>>
    /\ rJob = [r \in R |-> 0]
    /\ rMode = [r \in R |-> "none"]
    /\ rpc = [r \in R |-> "none"]
    /\ rCancelled = [r \in R |-> FALSE]
    /\ rGwo = [r \in R |-> "none"]
    /\ rIter = [r \in R |-> 0]
    /\ cpc = [j \in J |-> "idle"]
    /\ cQuiet = [j \in J |-> FALSE]
    /\ cDirect = [j \in J |-> FALSE]
    /\ last = NoCall

\* no GreyWolfOptimizer is driven directly, no objective is being evaluated
NoSocket == [pc |-> "none"]
NoAlg == gwo = <<>> /\ call = [pc |-> "idle"] /\ ws = NoSocket

Init == InitJobs(1..NumJobs, {}, 1..MaxRunners) /\ NoAlg

\* ------------------------------------------------------------ database
\* db.update_job_status: RUNNING leaves error_message alone, a terminal
\* status overwrites it with the argument (None unless FAILED passes one)
update_job_status_every_row(j, st, msg) ==
    /\ status' = [i \in Jobs |-> IF status[i] = ABSENT THEN ABSENT ELSE st]
    /\ errmsg' = IF st \in Terminal THEN [i \in Jobs |-> msg] ELSE errmsg
update_job_status_failure_lost(j, st, msg) ==
    /\ status' = IF st = FAILED THEN status ELSE [status EXCEPT ![j] = st]
    /\ errmsg' = IF st \in Terminal \ {FAILED}
                 THEN [errmsg EXCEPT ![j] = msg] ELSE errmsg
update_job_status(j, st, msg) ==
    /\ status' = [status EXCEPT ![j] = st]
    /\ errmsg' = IF st \in Terminal THEN [errmsg EXCEPT ![j] = msg] ELSE errmsg

\* db.save_job_result: INSERT OR REPLACE keyed by job_id
save_job_result_not_committed(j, r) == result' = result
save_job_result(j, r) == result' = [result EXCEPT ![j] = r]

Returns(op, j, res) == last' = Ret(op, j, res)
NoReturn == last' = NoCall

\* ---------------------------------------------------------- create_job
CreateJob(j) ==
    /\ status[j] = ABSENT
    /\ \A i \in Jobs : i < j => status[i] # ABSENT
    /\ status' = [status EXCEPT ![j] = PENDING]
    /\ Returns("create_job", j, "ok")
    /\ UNCHANGED <<errmsg, result, active, queue, runnerVars, cpc>>

\* JobRunner.__init__
NewRunner(r, j, mode, pc) ==
    /\ rJob' = [rJob EXCEPT ![r] = j]
    /\ rMode' = [rMode EXCEPT ![r] = mode]
    /\ rpc' = [rpc EXCEPT ![r] = pc]
    /\ UNCHANGED <<rCancelled, rGwo, rIter>>

\* ----------------------------------------------------------- start_job
\* the status test of start_job
\* faulty variant for C3: only a Completed job is refused
StartAllowedUnlessCompleted(st) == st # COMPLETED
StartAllowed(st) == st = PENDING

\* db.get_job, the status test, db.get_dataset and JobRunner(...)
StartJobCheck(j) ==
    /\ status[j] # ABSENT
    /\ IF StartAllowed(status[j])
       THEN /\ FreeRunner # NoRunner
            /\ NewRunner(FreeRunner, j, "bg", "s_new")
            /\ NoReturn
       ELSE /\ Returns("start_job", j, "ValueError")
            /\ UNCHANGED runnerVars
    /\ UNCHANGED <<dbVars, active, queue, cpc>>

\* with _jobs_lock: _active_jobs[job_id] = runner
StartJobRegister(r) ==
    /\ rpc[r] = "s_new"
    /\ active' = [active EXCEPT ![rJob[r]] = r]
    /\ rpc' = [rpc EXCEPT ![r] = "s_reg"]
    /\ NoReturn
    /\ UNCHANGED <<dbVars, queue, rJob, rMode, rCancelled, rGwo, rIter, cpc>>

\* runner._future = _executor.submit(runner.run); return job
StartJobSubmit(r) ==
    /\ rpc[r] = "s_reg"
    /\ queue' = Append(queue, r)
    /\ rpc' = [rpc EXCEPT ![r] = "queued"]
    /\ Returns("start_job", rJob[r], "ok")
    /\ UNCHANGED <<dbVars, active, rJob, rMode, rCancelled, rGwo, rIter, cpc>>

\* a free pool thread takes the oldest submission
WorkerTake(r) ==
    /\ queue # <<>>
    /\ r = Head(queue)
    /\ Cardinality(Busy) < PoolSize
    /\ queue' = Tail(queue)
    /\ rpc' = [rpc EXCEPT ![r] = "run"]
    /\ NoReturn
    /\ UNCHANGED <<dbVars, active, rJob, rMode, rCancelled, rGwo, rIter, cpc>>

\* -------------------------------------------------------- run_job_sync
\* run_job_sync returns the stored result instead of running
SyncShortcut(j) == status[j] = COMPLETED /\ result[j] # NoRunner

\* run_job_sync admits the job: the code tests nothing but the shortcut
SyncAllowed(st) == TRUE

\* db.get_job, the COMPLETED shortcut, db.get_dataset and JobRunner(...)
RunSyncCheck(j) ==
    /\ status[j] # ABSENT
    /\ IF SyncShortcut(j)
       THEN /\ Returns("run_job_sync", j, "result")
            /\ UNCHANGED runnerVars
       ELSE IF SyncAllowed(status[j])
       THEN /\ FreeRunner # NoRunner
            /\ NewRunner(FreeRunner, j, "sync", "y_new")
            /\ NoReturn
       ELSE /\ Returns("run_job_sync", j, "ValueError")
            /\ UNCHANGED runnerVars
    /\ UNCHANGED <<dbVars, active, queue, cpc>>

\* with _jobs_lock: _active_jobs[job_id] = runner; then runner.run() is
\* entered on the caller's own thread
RunSyncRegister(r) ==
    /\ rpc[r] = "y_new"
    /\ active' = [active EXCEPT ![rJob[r]] = r]
    /\ rpc' = [rpc EXCEPT ![r] = "run"]
    /\ NoReturn
    /\ UNCHANGED <<dbVars, queue, rJob, rMode, rCancelled, rGwo, rIter, cpc>>

\* ------------------------------------------------------- JobRunner.run
\* db.update_job_status(self.job_id, JobStatus.RUNNING)
RunStart(r) ==
    /\ rpc[r] = "run"
    /\ update_job_status(rJob[r], RUNNING, FALSE)
    /\ rpc' = [rpc EXCEPT ![r] = "optimize"]
    /\ NoReturn
    /\ UNCHANGED <<result, active, queue, rJob, rMode, rCancelled, rGwo, rIter, cpc>>

\* the flag a new GreyWolfOptimizer starts with: __init__ sets _cancelled
\* to False, whatever was asked of the runner that owns it
NewGwoState(r) == "live"

\* self._optimizer = VRPOptimizer(...) and its optimize() up to the loop of
\* GreyWolfOptimizer.optimize: self._gwo = GreyWolfOptimizer(...), initial
\* population, history entry 0.  VRPOptimizer._cancelled is written by
\* cancel() and read by nothing, so the optimizer and its _gwo are built
\* in one step: a cancel between the two constructions reaches no flag
\* that is ever read.
RunInit(r) ==
    /\ rpc[r] = "optimize"
    /\ rGwo' = [rGwo EXCEPT ![r] = NewGwoState(r)]
    /\ rIter' = [rIter EXCEPT ![r] = 1]
    /\ rpc' = [rpc EXCEPT ![r] = "loop"]
    /\ NoReturn
    /\ UNCHANGED <<dbVars, active, queue, rJob, rMode, rCancelled, cpc>>

\* for t in range(1, max_iter + 1): if self._cancelled: break
RunLoopTop(r) ==
    /\ rpc[r] = "loop"
    /\ rpc' = [rpc EXCEPT ![r] =
           IF rIter[r] > MaxIter \/ rGwo[r] = "cancelled" THEN "postopt" ELSE "iter"]
    /\ NoReturn
    /\ UNCHANGED <<dbVars, active, queue, rJob, rMode, rCancelled, rGwo, rIter, cpc>>

\* the body of iteration t: population update, sort, leaders, history
RunIter(r) ==
    /\ rpc[r] = "iter"
    /\ rIter' = [rIter EXCEPT ![r] = @ + 1]
    /\ rpc' = [rpc EXCEPT ![r] = "loop"]
    /\ NoReturn
    /\ UNCHANGED <<dbVars, active, queue, rJob, rMode, rCancelled, rGwo, cpc>>

\* an exception raised by the optimizer (objective, numpy, callback)
RunRaise(r) ==
    /\ rpc[r] \in {"optimize", "iter"}
    /\ rpc' = [rpc EXCEPT ![r] = "except"]
    /\ NoReturn
    /\ UNCHANGED <<dbVars, active, queue, rJob, rMode, rCancelled, rGwo, rIter, cpc>>

\* the test that follows self._optimizer.optimize(...)
SeesCancel(r) == rCancelled[r]

\* if self._cancelled: update_job_status(CANCELLED); return None
RunPostOpt(r) ==
    /\ rpc[r] = "postopt"
    /\ IF SeesCancel(r)
       THEN /\ update_job_status(rJob[r], CANCELLED, FALSE)
            /\ rpc' = [rpc EXCEPT ![r] = "fin_cancel"]
       ELSE /\ rpc' = [rpc EXCEPT ![r] = "save"]
            /\ UNCHANGED <<status, errmsg>>
    /\ NoReturn
    /\ UNCHANGED <<result, active, queue, rJob, rMode, rCancelled, rGwo, rIter, cpc>>

\* db.save_job_result(job_result)
RunSave(r) ==
    /\ rpc[r] = "save"
    /\ save_job_result(rJob[r], r)
    /\ rpc' = [rpc EXCEPT ![r] = "complete"]
    /\ NoReturn
    /\ UNCHANGED <<status, errmsg, active, queue, rJob, rMode, rCancelled, rGwo, rIter, cpc>>

\* db.update_job_status(self.job_id, JobStatus.COMPLETED); return job_result
RunComplete(r) ==
    /\ rpc[r] = "complete"
    /\ update_job_status(rJob[r], COMPLETED, FALSE)
    /\ rpc' = [rpc EXCEPT ![r] = "fin_ok"]
    /\ NoReturn
    /\ UNCHANGED <<result, active, queue, rJob, rMode, rCancelled, rGwo, rIter, cpc>>

\* except Exception as e: db.update_job_status(..., FAILED, str(e)); raise
RunExcept(r) ==
    /\ rpc[r] = "except"
    /\ update_job_status(rJob[r], FAILED, TRUE)
    /\ rpc' = [rpc EXCEPT ![r] = "fin_exc"]
    /\ NoReturn
    /\ UNCHANGED <<result, active, queue, rJob, rMode, rCancelled, rGwo, rIter, cpc>>

\* after run() nothing refers to the runner or its optimizer any more:
\* their fields are dropped from the state
Discard(r) ==
    /\ rCancelled' = [rCancelled EXCEPT ![r] = FALSE]
    /\ rGwo' = [rGwo EXCEPT ![r] = "none"]
    /\ rIter' = [rIter EXCEPT ![r] = 0]

\* what run_job_sync hands its caller once runner.run() has ended
SyncOutcome(pc) ==
    CASE pc = "fin_ok" -> "result"
      [] pc = "fin_cancel" -> "RuntimeError"
      [] OTHER -> "exception"

\* faulty variant for C10: the key is deleted on the success path only
RegistryAfterRunNoFinally(r) ==
    IF rpc[r] = "fin_ok" THEN [active EXCEPT ![rJob[r]] = NoRunner] ELSE active
\* the registry after the finally block of run(): the key is deleted
\* whatever runner it maps to
RegistryAfterRun(r) == [active EXCEPT ![rJob[r]] = NoRunner]

\* finally: with _jobs_lock: del _active_jobs[self.job_id] if present;
\* run() returns (to the pool thread, or to run_job_sync and its caller)
RunFinally(r) ==
    /\ rpc[r] \in {"fin_ok", "fin_cancel", "fin_exc"}
    /\ active' = RegistryAfterRun(r)
    /\ rpc' = [rpc EXCEPT ![r] = "done"]
    /\ IF rMode[r] = "sync"
       THEN Returns("run_job_sync", rJob[r], SyncOutcome(rpc[r]))
       ELSE NoReturn
    /\ Discard(r)
    /\ UNCHANGED <<dbVars, queue, rJob, rMode, cpc>>

\* ---------------------------------------------------------- cancel_job
\* JobRunner.cancel -> VRPOptimizer.cancel -> GreyWolfOptimizer.cancel:
\* each level sets its own flag and forwards only to an object that exists
CancelledGwo(r) == IF rGwo[r] = "none" THEN "none" ELSE "cancelled"

\* with _jobs_lock: runner = _active_jobs.get(job_id);
\* if runner: runner.cancel(); return True
CancelLookup(j) ==
    /\ status[j] # ABSENT
    /\ cpc[j] = "idle"
    /\ IF active[j] # NoRunner
       THEN /\ rCancelled' = [rCancelled EXCEPT ![active[j]] = TRUE]
            /\ rGwo' = [rGwo EXCEPT ![active[j]] = CancelledGwo(active[j])]
            /\ Returns("cancel_job", j, "True")
            /\ UNCHANGED cpc
       ELSE /\ cpc' = [cpc EXCEPT ![j] = "read"]
            /\ NoReturn
            /\ UNCHANGED <<rCancelled, rGwo>>
    /\ UNCHANGED <<dbVars, active, queue, rJob, rMode, rpc, rIter>>

\* faulty variant for C8: every status but Cancelled is overwritten
DirectCancellableUnlessCancelled(st) == st # CANCELLED
\* the statuses cancel_job overwrites when the registry has no entry
DirectCancellable(st) == st \in {PENDING, RUNNING}

\* job = db.get_job(job_id); the status test; return False
CancelRead(j) ==
    /\ cpc[j] = "read"
    /\ IF DirectCancellable(status[j])
       THEN /\ cpc' = [cpc EXCEPT ![j] = "write"]
            /\ NoReturn
       ELSE /\ cpc' = [cpc EXCEPT ![j] = "idle"]
            /\ Returns("cancel_job", j, "False")
    /\ UNCHANGED <<dbVars, active, queue, runnerVars>>

\* db.update_job_status(job_id, JobStatus.CANCELLED); return True
CancelWrite(j) ==
    /\ cpc[j] = "write"
    /\ update_job_status(j, CANCELLED, FALSE)
    /\ cpc' = [cpc EXCEPT ![j] = "idle"]
    /\ Returns("cancel_job", j, "True")
    /\ UNCHANGED <<result, active, queue, runnerVars>>

\* bookkeeping for the call of cancel_job in flight on j: it was made on
\* a settled job and the job has been settled at every step since
QuietNext ==
    cQuiet' = [j \in Jobs |->
        /\ cpc'[j] = "read"
        /\ status'[j] \in {COMPLETED, FAILED}
        /\ \A r \in Runners : rJob'[r] = j => rpc'[r] \in {"none", "done"}
        /\ IF cpc[j] = "idle" THEN Settled(j) ELSE cQuiet[j]]

\* bookkeeping: cancel_job has overwritten the status Pending of j
DirectNext ==
    cDirect' = [j \in Jobs |->
        cDirect[j] \/ (cpc[j] = "write" /\ cpc'[j] = "idle" /\ status[j] = PENDING)]

HistNext == QuietNext /\ DirectNext
\* a step of the job coordinator
JobStep == HistNext /\ UNCHANGED algVars

\* ------------------------------------------------------- specification
Next ==
    \/ \E j \in Jobs : CreateJob(j) /\ JobStep
    \/ \E j \in Jobs : StartJobCheck(j) /\ JobStep
    \/ \E r \in Runners : StartJobRegister(r) /\ JobStep
    \/ \E r \in Runners : StartJobSubmit(r) /\ JobStep
    \/ \E r \in Runners : WorkerTake(r) /\ JobStep
    \/ \E j \in Jobs : RunSyncCheck(j) /\ JobStep
    \/ \E r \in Runners : RunSyncRegister(r) /\ JobStep
    \/ \E r \in Runners : RunStart(r) /\ JobStep
    \/ \E r \in Runners : RunInit(r) /\ JobStep
    \/ \E r \in Runners : RunLoopTop(r) /\ JobStep
    \/ \E r \in Runners : RunIter(r) /\ JobStep
    \/ \E r \in Runners : RunRaise(r) /\ JobStep
    \/ \E r \in Runners : RunPostOpt(r) /\ JobStep
    \/ \E r \in Runners : RunSave(r) /\ JobStep
    \/ \E r \in Runners : RunComplete(r) /\ JobStep
    \/ \E r \in Runners : RunExcept(r) /\ JobStep
    \/ \E r \in Runners : RunFinally(r) /\ JobStep
    \/ \E j \in Jobs : CancelLookup(j) /\ JobStep
    \/ \E j \in Jobs : CancelRead(j) /\ JobStep
    \/ \E j \in Jobs : CancelWrite(j) /\ JobStep

Spec == Init /\ [][Next]_vars

\* the coordinator while no caller cancels: create_job, start_job and
\* run_job_sync calls, pool workers and runners
NextUncancelled ==
    \/ \E j \in Jobs : CreateJob(j) /\ JobStep
    \/ \E j \in Jobs : StartJobCheck(j) /\ JobStep
    \/ \E r \in Runners : StartJobRegister(r) /\ JobStep
    \/ \E r \in Runners : StartJobSubmit(r) /\ JobStep
    \/ \E r \in Runners : WorkerTake(r) /\ JobStep
    \/ \E j \in Jobs : RunSyncCheck(j) /\ JobStep
    \/ \E r \in Runners : RunSyncRegister(r) /\ JobStep
    \/ \E r \in Runners : RunStart(r) /\ JobStep
    \/ \E r \in Runners : RunInit(r) /\ JobStep
    \/ \E r \in Runners : RunLoopTop(r) /\ JobStep
    \/ \E r \in Runners : RunIter(r) /\ JobStep
    \/ \E r \in Runners : RunRaise(r) /\ JobStep
    \/ \E r \in Runners : RunPostOpt(r) /\ JobStep
    \/ \E r \in Runners : RunSave(r) /\ JobStep
    \/ \E r \in Runners : RunComplete(r) /\ JobStep
    \/ \E r \in Runners : RunExcept(r) /\ JobStep
    \/ \E r \in Runners : RunFinally(r) /\ JobStep

\* that coordinator serving one more job record
InitTwoJobs == InitJobs(1..(NumJobs + 1), {}, 1..MaxRunners) /\ NoAlg
SpecTwoJobs == InitTwoJobs /\ [][NextUncancelled]_vars

\* the event loop of the API process is free: no start_job call is
\* between its status check and its return, no run_job_sync call is
\* running its job
EventLoopFree ==
    \A r \in Runners :
        /\ rpc[r] \notin {"s_new", "s_reg", "y_new"}
        /\ ~(rMode[r] = "sync" /\ Live(r))

\* the coordinator under load in one API process: PoolSize + 1 Pending
\* jobs, each started once, by start_job or by run_job_sync, in the order
\* of their ids (the k-th runner constructed serves job k); the endpoints
\* are coroutines of one event loop, so one call is made at a time
NextPool ==
    \/ \E j \in Jobs : j = FreeRunner /\ EventLoopFree /\ StartJobCheck(j) /\ JobStep
    \/ \E r \in Runners : StartJobRegister(r) /\ JobStep
    \/ \E r \in Runners : StartJobSubmit(r) /\ JobStep
    \/ \E r \in Runners : WorkerTake(r) /\ JobStep
    \/ \E j \in Jobs : j = FreeRunner /\ EventLoopFree /\ RunSyncCheck(j) /\ JobStep
    \/ \E r \in Runners : RunSyncRegister(r) /\ JobStep
    \/ \E r \in Runners : RunStart(r) /\ JobStep
    \/ \E r \in Runners : RunInit(r) /\ JobStep
    \/ \E r \in Runners : RunLoopTop(r) /\ JobStep
    \/ \E r \in Runners : RunIter(r) /\ JobStep
    \/ \E r \in Runners : RunPostOpt(r) /\ JobStep
    \/ \E r \in Runners : RunSave(r) /\ JobStep
    \/ \E r \in Runners : RunComplete(r) /\ JobStep
    \/ \E r \in Runners : RunFinally(r) /\ JobStep

InitPool ==
    InitJobs(1..(PoolSize + 1), 1..(PoolSize + 1), 1..(PoolSize + 1)) /\ NoAlg
SpecPool == InitPool /\ [][NextPool]_vars

\* the steps of the thread that owns runner r: the rest of the start_job
\* or run_job_sync call that constructed it, the pool worker taking it,
\* and JobRunner.run up to its return (raising is not among them: no
\* thread is bound to fail)
RunnerStep(r) ==
    /\ \/ StartJobRegister(r) \/ StartJobSubmit(r) \/ WorkerTake(r)
       \/ RunSyncRegister(r) \/ RunStart(r) \/ RunInit(r) \/ RunLoopTop(r)
       \/ RunIter(r) \/ RunPostOpt(r) \/ RunSave(r) \/ RunComplete(r)
       \/ RunExcept(r) \/ RunFinally(r)
    /\ JobStep

\* the scheduler lets every thread that can take a step take one
FairSpec == Spec /\ \A r \in 1..MaxRunners : WF_vars(RunnerStep(r))

TypeOK ==
    /\ status \in [Jobs -> JobStatus \cup {ABSENT}]
    /\ errmsg \in [Jobs -> BOOLEAN]
    /\ result \in [Jobs -> Runners \cup {NoRunner}]
    /\ active \in [Jobs -> Runners \cup {NoRunner}]
    /\ rIter \in [Runners -> 0..(MaxIter + 1)]
    /\ cpc \in [Jobs -> {"idle", "read", "write"}]

\* ================================================== gwo_optimizer.py
\* Grid of the discretised search space.  Positions (random keys) are
\* integers lb..ub with lb = 0 and ub = KeyMax, the dimension is 1, and
\* fitness values are integers; the generator is a small linear
\* congruential generator.  The code works on floats and PCG64: what the
\* model keeps is the order of the draws, the data flow of one iteration
\* and every comparison the code makes.
PopSize == 3          \* population (at least 3: alpha, beta, delta)
KeyMax == 3           \* ub of every key, lb is 0
MaxFit == 2           \* objective values are 0..MaxFit
MaxGwoIter == 3       \* max_iter of a GreyWolfOptimizer is 1..MaxGwoIter
RngMod == 8           \* number of generator states
MaxSeed == 3          \* explicit seeds are 0..MaxSeed
MaxInterval == 3      \* progress_interval of a reporting run: 1..MaxInterval
DefaultInterval == 5  \* progress_interval: int = 5

Abs(v) == IF v < 0 THEN 0 - v ELSE v
\* sum of the values of a function with a finite domain
RECURSIVE FnSum(_)
FnSum(f) ==
    IF DOMAIN f = {} THEN 0
    ELSE LET k == CHOOSE k \in DOMAIN f : TRUE
         IN f[k] + FnSum([i \in DOMAIN f \ {k} |-> f[i]])

\* np.argsort(v) for a sequence v, as 1-based indices.  The call names
\* no kind, so the sort is numpy's default one, which promises no order
\* among equal elements: it keeps them in index order on some arrays
\* (its insertion sort of short arrays) and not on others (its partition
\* step on arrays of more than 16 elements, its vectorised kernels).  It
\* is a function of the array all the same.  The arrays here are short,
\* so what a build does with equal elements is a parameter: "low" puts
\* the lower index first, "high" the higher one.
TieOrders == {"low", "high"}
TieBefore(ties, k, i) == IF ties = "low" THEN k < i ELSE k > i
ArgSort(v, ties) ==
    [pos \in DOMAIN v |->
        CHOOSE i \in DOMAIN v :
            Cardinality({k \in DOMAIN v :
                v[k] < v[i] \/ (v[k] = v[i] /\ TieBefore(ties, k, i))}) + 1 = pos]

\* an Optional[int] argument is a set: {} for None, {k} for the int k
SeedArgs == {{}} \cup {{k} : k \in 0..MaxSeed}
ExplicitSeeds == {{k} : k \in 0..MaxSeed}
\* objective functions on one key
Objectives == [0..KeyMax -> 0..MaxFit]

\* np.random.default_rng(seed): the states the new generator may be in.
\* Without a seed it is seeded from operating system entropy.
default_rng_ignoring_seed(seed) == 0..(RngMod - 1)
default_rng(seed) ==
    IF seed = {} THEN 0..(RngMod - 1) ELSE {k % RngMod : k \in seed}

\* the generator state after one draw, and after n draws
RngNext(s) == (5 * s + 3) % RngMod
RECURSIVE RngAfter(_, _)
RngAfter(s, n) == IF n = 0 THEN s ELSE RngAfter(RngNext(s), n - 1)
\* rng.random(): the draw made in state s is (2 * Random(s) + 1) / 4,
\* that is 1/4 or 3/4
Random(s) == (RngNext(s) \div 2) % 2
\* rng.uniform(lb, ub): a key in 0..KeyMax
Uniform(s) == RngNext(s) % (KeyMax + 1)

\* GreyWolfOptimizer.__init__, and the arguments the coming call of
\* optimize is made with: no progress_callback, the default interval.
\* progress is the sequence of OptimizationProgress values the callback
\* has been called with.
NewGwo(seed, obj, T, s, ties) ==
    [pc |-> "new", seed |-> seed, obj_func |-> obj, max_iter |-> T, rng |-> s,
     ties |-> ties,
     progress_callback |-> FALSE, progress_interval |-> DefaultInterval,
     progress |-> <<>>,
     X |-> <<>>, fitness |-> <<>>,
     alpha |-> 0, beta |-> 0, delta |-> 0,
     alpha_fit |-> 0, beta_fit |-> 0, delta_fit |-> 0,
     t |-> 0, best_history |-> <<>>, cancelled |-> FALSE, broke |-> 0]

\* the optimizers G, constructed with the same arguments, seed from S
InitGwo(G, S) ==
    \E seed \in S : \E obj \in Objectives : \E T \in 1..MaxGwoIter :
    \E ties \in TieOrders :
        gwo \in [G -> {NewGwo(seed, obj, T, s, ties) : s \in default_rng(seed)}]

GRuns == DOMAIN gwo

\* _init_population: PopSize draws of uniform(lb, ub)
RECURSIVE InitPopulation(_, _)
InitPopulation(s, n) ==
    IF n = 0 THEN <<>>
    ELSE Append(InitPopulation(s, n - 1), Uniform(RngAfter(s, n - 1)))

\* np.apply_along_axis(self.obj_func, 1, X)
Evaluate(obj, X) == [i \in DOMAIN X |-> obj[X[i]]]
\* X = X[idx]
Take(v, idx) == [i \in DOMAIN idx |-> v[idx[i]]]

\* the population X sorted by fitness: <<X[idx], fitness[idx]>> with
\* idx = np.argsort(fitness)
Ranked(obj, X, ties) ==
    LET fitness == Evaluate(obj, X)
        idx == ArgSort(fitness, ties)
    IN <<Take(X, idx), Take(fitness, idx)>>

\* if progress_callback: progress_callback(OptimizationProgress(0, ...))
FirstProgress(o, alpha_fit) ==
    IF o.progress_callback
    THEN Append(o.progress, [iteration |-> 0, best_fitness |-> alpha_fit])
    ELSE o.progress

\* optimize, up to the for loop: initial population, evaluation, sort,
\* leaders, first entry of the history
GwoStart(g) ==
    /\ gwo[g].pc = "new"
    /\ \E o \in {gwo[g]} :
       \E ranked \in {Ranked(o.obj_func, InitPopulation(o.rng, PopSize), o.ties)} :
       \E X \in {ranked[1]} : \E fitness \in {ranked[2]} :
          gwo' = [gwo EXCEPT ![g] =
              [o EXCEPT !.pc = "loop", !.rng = RngAfter(o.rng, PopSize),
                        !.X = X, !.fitness = fitness,
                        !.alpha = X[1], !.beta = X[2], !.delta = X[3],
                        !.alpha_fit = fitness[1], !.beta_fit = fitness[2],
                        !.delta_fit = fitness[3],
                        !.t = 1,
                        !.best_history =
                            <<[iteration |-> 0, fitness |-> fitness[1]]>>,
                        !.progress = FirstProgress(o, fitness[1])]]
    /\ UNCHANGED <<jobVars, call>>

\* range(1, max_iter + 1) is exhausted
LoopExhaustedEarly(t, T) == t >= T
LoopExhausted(t, T) == t > T

\* top of the for loop: the range is exhausted, or the flag is seen and
\* the loop breaks, or iteration t begins
GwoLoopTop(g) ==
    /\ gwo[g].pc = "loop"
    /\ LET o == gwo[g] IN
       gwo' = [gwo EXCEPT ![g] =
           IF LoopExhausted(o.t, o.max_iter) THEN [o EXCEPT !.pc = "done"]
           ELSE IF o.cancelled THEN [o EXCEPT !.pc = "done", !.broke = o.t]
           ELSE [o EXCEPT !.pc = "iter"]]
    /\ UNCHANGED <<jobVars, call>>

\* components[j] for one leader, times 2 * max_iter: with r1, r2 in
\* {1/4, 3/4}, A = 2*a*r1 - a is -a/2 or a/2, C = 2*r2 is 1/2 or 3/2,
\* a = 2 * (1 - t / max_iter), D = |C * leader - Xi|
Component(leader, xi, b1, b2, t, T) ==
    2 * T * leader - (2 * b1 - 1) * (T - t) * Abs((2 * b2 + 1) * leader - 2 * xi)

Clip(v) == IF v < 0 THEN 0 ELSE IF v > KeyMax THEN KeyMax ELSE v

\* the new position of wolf i: mean of the three components, clipped.
\* Wolf i makes draws 6*(i-1)+1 .. 6*i of the iteration, two per leader.
NewPosition(o, i) ==
    LET leader == <<o.alpha, o.beta, o.delta>>
        s(j) == RngAfter(o.rng, 6 * (i - 1) + 2 * (j - 1))
        comp == [j \in 1..3 |->
                    Component(leader[j], o.X[i], Random(s(j)),
                              Random(RngNext(s(j))), o.t, o.max_iter)]
    IN Clip(FnSum(comp) \div (6 * o.max_iter))

\* for i in range(self.pop): the positions of wolves 1..n after the loop
RECURSIVE MovedWolves(_, _)
MovedWolves(o, n) ==
    IF n = 0 THEN <<>>
    ELSE Append(MovedWolves(o, n - 1), NewPosition(o, n))

\* if fitness[0] < alpha_fit: the alpha is replaced
ImprovesAlways(f, alpha_fit) == TRUE
Improves(f, alpha_fit) == f < alpha_fit

\* t % progress_interval == 0
DueEveryIteration(t, k) == TRUE
Due(t, k) == t % k = 0
\* if progress_callback and t % progress_interval == 0: progress_callback(...)
NextProgress(o, alpha_fit) ==
    IF o.progress_callback /\ Due(o.t, o.progress_interval)
    THEN Append(o.progress, [iteration |-> o.t, best_fitness |-> alpha_fit])
    ELSE o.progress

\* the body of iteration t: every wolf moves, evaluation, sort, leaders,
\* one more entry of the history
GwoIter(g) ==
    /\ gwo[g].pc = "iter"
    /\ \E o \in {gwo[g]} :
       \E ranked \in {Ranked(o.obj_func, MovedWolves(o, PopSize), o.ties)} :
       \E X \in {ranked[1]} : \E fitness \in {ranked[2]} :
       \E better \in {Improves(fitness[1], o.alpha_fit)} :
       \E alpha_fit \in {IF better THEN fitness[1] ELSE o.alpha_fit} :
          gwo' = [gwo EXCEPT ![g] =
              [o EXCEPT !.pc = "loop", !.rng = RngAfter(o.rng, 6 * PopSize),
                        !.X = X, !.fitness = fitness,
                        !.alpha = IF better THEN X[1] ELSE o.alpha,
                        !.alpha_fit = alpha_fit,
                        !.beta = X[2], !.beta_fit = fitness[2],
                        !.delta = X[3], !.delta_fit = fitness[3],
                        !.t = o.t + 1,
                        !.best_history = Append(o.best_history,
                            [iteration |-> o.t, fitness |-> alpha_fit]),
                        !.progress = NextProgress(o, alpha_fit)]]
    /\ UNCHANGED <<jobVars, call>>

\* GreyWolfOptimizer.cancel, called from another thread
GwoCancel(g) ==
    /\ gwo[g].pc # "done"
    /\ ~gwo[g].cancelled
    /\ gwo' = [gwo EXCEPT ![g].cancelled = TRUE]
    /\ UNCHANGED <<jobVars, call>>

NextGwo ==
    \/ \E g \in GRuns : GwoStart(g) /\ UNCHANGED ws
    \/ \E g \in GRuns : GwoLoopTop(g) /\ UNCHANGED ws
    \/ \E g \in GRuns : GwoIter(g) /\ UNCHANGED ws
    \/ \E g \in GRuns : GwoCancel(g) /\ UNCHANGED ws

NoCallMade == call = [pc |-> "idle"] /\ ws = NoSocket

\* one optimizer, any seed argument
InitOneGwo == InitJobs({}, {}, {}) /\ NoCallMade /\ InitGwo(1..1, SeedArgs)
SpecGwo == InitOneGwo /\ [][NextGwo]_vars

\* two optimizers constructed with the same explicit seed, objective and
\* max_iter, run side by side
InitGwoPair ==
    InitJobs({}, {}, {}) /\ NoCallMade /\ InitGwo(1..2, ExplicitSeeds)
SpecGwoPair == InitGwoPair /\ [][NextGwo]_vars

\* one optimizer whose optimize is called with a progress callback and
\* an interval of 1..MaxInterval
InitGwoProgress ==
    /\ InitJobs({}, {}, {}) /\ NoCallMade
    /\ \E seed \in SeedArgs : \E obj \in Objectives :
       \E T \in 1..MaxGwoIter : \E k \in 1..MaxInterval :
       \E ties \in TieOrders :
          gwo \in [1..1 -> {[NewGwo(seed, obj, T, s, ties) EXCEPT
                                 !.progress_callback = TRUE,
                                 !.progress_interval = k] :
                            s \in default_rng(seed)}]
SpecGwoProgress == InitGwoProgress /\ [][NextGwo]_vars

\* ------------------------------------------- main.py: /ws/optimize
\* One connection, from the moment optimizer.optimize has been handed to
\* the connection's own single-thread executor.  Two threads: the worker
\* running optimize, whose progress callback is on_progress, and the
\* event loop running the coroutine websocket_optimize, which suspends
\* at every await.
QueueMaxsize == 0     \* asyncio.Queue(): maxsize=0
WsInterval == 1       \* progress_interval=1

\* Queue.full(): a queue whose maxsize is <= 0 is never full
Full(w) ==
    IF w.maxsize <= 0 THEN FALSE ELSE Len(w.progress_queue) >= w.maxsize

\* on_progress: put_nowait, and QueueFull is swallowed
on_progress(w, progress) ==
    IF Full(w) THEN [w EXCEPT !.dropped = @ + 1]
    ELSE [w EXCEPT !.progress_queue = Append(@, progress)]

\* the connection after the call of on_progress, if any, made by the
\* step of optimize being taken
Reporting(w) ==
    LET made == gwo'[1].progress
    IN IF Len(made) > Len(gwo[1].progress)
       THEN on_progress(w, made[Len(made)]) ELSE w

WorkerRunning == ws.pc # "none" /\ ws.worker = "running"
At(pc) == ws.pc = pc

\* the worker thread: optimizer.optimize(progress_callback=on_progress, ...)
WsOptStart == WorkerRunning /\ GwoStart(1) /\ ws' = Reporting(ws)
WsOptLoopTop == WorkerRunning /\ GwoLoopTop(1) /\ UNCHANGED ws
WsOptIter == WorkerRunning /\ GwoIter(1) /\ ws' = Reporting(ws)
\* optimize returns its result to the executor
WsOptReturn ==
    /\ WorkerRunning /\ gwo[1].pc = "done"
    /\ ws' = [ws EXCEPT !.worker = "returned"]
    /\ UNCHANGED <<jobVars, gwo, call>>
\* optimize ends with an exception
WsOptRaise ==
    /\ WorkerRunning /\ gwo[1].pc # "done"
    /\ ws' = [ws EXCEPT !.worker = "raised"]
    /\ UNCHANGED <<jobVars, gwo, call>>
\* the event loop runs the callback that completes the asyncio future
WsFutureDone ==
    /\ ws.pc # "none" /\ ws.worker # "running" /\ ~ws.future_done
    /\ ws' = [ws EXCEPT !.future_done = TRUE]
    /\ UNCHANGED <<jobVars, gwo, call>>

\* progress_queue.get() / get_nowait() on a queue that is not empty
Got(w, pc) ==
    [w EXCEPT !.pc = pc, !.held = <<Head(w.progress_queue)>>,
              !.progress_queue = Tail(w.progress_queue)]
\* websocket.send_json({"iter": ..., "best_fitness": ...}) went through
SentProgress(w, pc) ==
    [w EXCEPT !.pc = pc, !.held = <<>>,
              !.sent = Append(@, [iter |-> w.held[1].iteration,
                                  best_fitness |-> w.held[1].best_fitness])]

\* while not future.done():
WsLoopTest ==
    /\ At("loop")
    /\ ws' = [ws EXCEPT !.pc = IF ws.future_done THEN "result" ELSE "get"]
    /\ UNCHANGED <<jobVars, gwo, call>>
\* wait_for(progress_queue.get(), 0.1): an element is there, or get waits
WsGet ==
    /\ At("get")
    /\ ws' = IF ws.progress_queue # <<>> THEN Got(ws, "send")
             ELSE [ws EXCEPT !.pc = "wait"]
    /\ UNCHANGED <<jobVars, gwo, call>>
\* the waiting get is woken by a put
WsWake ==
    /\ At("wait") /\ ws.progress_queue # <<>>
    /\ ws' = Got(ws, "send")
    /\ UNCHANGED <<jobVars, gwo, call>>
\* except asyncio.TimeoutError: pass
WsTimeout ==
    /\ At("wait")
    /\ ws' = [ws EXCEPT !.pc = "loop"]
    /\ UNCHANGED <<jobVars, gwo, call>>
WsSend ==
    /\ At("send")
    /\ ws' = SentProgress(ws, "loop")
    /\ UNCHANGED <<jobVars, gwo, call>>
\* except WebSocketDisconnect: optimizer.cancel(); return
WsSendDisconnect ==
    /\ At("send")
    /\ ws' = [ws EXCEPT !.pc = "closed", !.held = <<>>]
    /\ gwo' = [gwo EXCEPT ![1].cancelled = TRUE]
    /\ UNCHANGED <<jobVars, call>>
\* result = await future
WsAwait ==
    /\ At("result")
    /\ ws' = [ws EXCEPT !.pc = IF ws.worker = "returned" THEN "flush"
                                ELSE "error"]
    /\ UNCHANGED <<jobVars, gwo, call>>

\* while not progress_queue.empty(): the loop is left
FlushedAtOnce(w) == TRUE
Flushed(w) == w.progress_queue = <<>>
WsFlush ==
    /\ At("flush")
    /\ ws' = IF Flushed(ws) THEN [ws EXCEPT !.pc = "final"]
             ELSE Got(ws, "flushsend")
    /\ UNCHANGED <<jobVars, gwo, call>>
WsFlushSend ==
    /\ At("flushsend")
    /\ ws' = SentProgress(ws, "flush")
    /\ UNCHANGED <<jobVars, gwo, call>>
\* the outer except WebSocketDisconnect: pass
WsFlushDisconnect ==
    /\ At("flushsend")
    /\ ws' = [ws EXCEPT !.pc = "closed", !.held = <<>>]
    /\ UNCHANGED <<jobVars, gwo, call>>
\* websocket.send_json({"done": True, ...})
WsFinal ==
    /\ At("final")
    /\ ws' = [ws EXCEPT !.pc = "closed",
                        !.sent = Append(@, [done |-> TRUE,
                                            best_fitness |-> gwo[1].alpha_fit])]
    /\ UNCHANGED <<jobVars, gwo, call>>
WsFinalDisconnect ==
    /\ At("final")
    /\ ws' = [ws EXCEPT !.pc = "closed"]
    /\ UNCHANGED <<jobVars, gwo, call>>
\* except Exception as e: websocket.send_json({"error": str(e)})
WsError ==
    /\ At("error")
    /\ ws' = [ws EXCEPT !.pc = "closed", !.sent = Append(@, [error |-> TRUE])]
    /\ UNCHANGED <<jobVars, gwo, call>>
WsErrorDisconnect ==
    /\ At("error")
    /\ ws' = [ws EXCEPT !.pc = "closed"]
    /\ UNCHANGED <<jobVars, gwo, call>>

NextStream ==
    \/ WsOptStart \/ WsOptLoopTop \/ WsOptIter \/ WsOptReturn \/ WsOptRaise
    \/ WsFutureDone
    \/ WsLoopTest \/ WsGet \/ WsWake \/ WsTimeout \/ WsSend
    \/ WsSendDisconnect \/ WsAwait
    \/ WsFlush \/ WsFlushSend \/ WsFlushDisconnect
    \/ WsFinal \/ WsFinalDisconnect \/ WsError \/ WsErrorDisconnect

\* progress_queue = asyncio.Queue(); run_in_executor(...); the coroutine
\* is about to test future.done() for the first time
NewSocket ==
    [pc |-> "loop", worker |-> "running", future_done |-> FALSE,
     progress_queue |-> <<>>, maxsize |-> QueueMaxsize, dropped |-> 0,
     held |-> <<>>, sent |-> <<>>]

InitStream ==
    /\ InitJobs({}, {}, {}) /\ call = [pc |-> "idle"] /\ ws = NewSocket
    /\ \E seed \in ExplicitSeeds : \E obj \in Objectives :
       \E T \in 1..MaxGwoIter : \E ties \in TieOrders :
          gwo \in [1..1 -> {[NewGwo(seed, obj, T, s, ties) EXCEPT
                                 !.progress_callback = TRUE,
                                 !.progress_interval = WsInterval] :
                            s \in default_rng(seed)}]
SpecStream == InitStream /\ [][NextStream]_vars

\* ---------------------------------- decode_random_keys, fitness_from_routes
MaxCust == 3          \* customers of an instance: 0..MaxCust
MaxKey == 2           \* keys are 0..MaxKey, so that ties occur
MaxDemand == 2        \* demands are 0..MaxDemand
MaxCap == 2           \* vehicle capacities are 0..MaxCap
MaxPenalty == 2       \* penalty coefficients are 0..MaxPenalty

\* the depot and the places customers may be at: all distances between
\* them are whole numbers (0, 3, 4 or 5)
Depot == <<0, 0>>
Points == {<<3, 0>>, <<0, 4>>, <<3, 4>>}

\* math.hypot on whole numbers: the root, exact for the points above
hypot(dx, dy) ==
    CHOOSE d \in 0..(Abs(dx) + Abs(dy)) :
        d * d <= dx * dx + dy * dy /\ (d + 1) * (d + 1) > dx * dx + dy * dy
euclidean(a, b) == hypot(a[1] - b[1], a[2] - b[2])

\* the route opened when a customer does not fit
NewRouteWithoutCustomer(depot_index, cust_idx) == <<depot_index>>
NewRoute(depot_index, cust_idx) == <<depot_index, cust_idx>>

\* if current_load + d <= vehicle_capacity
FitsWithRoomToSpare(current_load, d, vehicle_capacity) ==
    current_load + d < vehicle_capacity
Fits(current_load, d, vehicle_capacity) == current_load + d <= vehicle_capacity

\* for idx in order: ..., from position k of order on; yields the closed
\* routes and the route still open
RECURSIVE DecodeFrom(_, _, _, _, _, _, _, _)
DecodeFrom(order, k, routes, current_route, current_load, depot_index, demands, vehicle_capacity) ==
    IF k > Len(order) THEN <<routes, current_route>>
    ELSE LET cust_idx == order[k]
             d == demands[cust_idx]
         IN IF Fits(current_load, d, vehicle_capacity)
            THEN DecodeFrom(order, k + 1, routes,
                            Append(current_route, cust_idx), current_load + d,
                            depot_index, demands, vehicle_capacity)
            ELSE DecodeFrom(order, k + 1,
                            Append(routes, Append(current_route, depot_index)),
                            NewRoute(depot_index, cust_idx), d,
                            depot_index, demands, vehicle_capacity)

\* x[k] is the key of customer k (the code's x[k - 1]); coords and demands
\* are indexed by node, 0 being the depot
decode_random_keys(x, depot_index, coords, demands, vehicle_capacity, ties) ==
    LET end == DecodeFrom(ArgSort(x, ties), 1, <<>>, <<depot_index>>, 0,
                          depot_index, demands, vehicle_capacity)
    IN Append(end[1], Append(end[2], depot_index))

\* range(len(route) - 1): the legs of a route
LegsWithoutReturn(route) == 1..(Len(route) - 2)
Legs(route) == 1..(Len(route) - 1)

\* sum(demands[c] for c in route if c != 0)
RouteLoad(route, demands) ==
    FnSum([i \in 1..Len(route) |-> IF route[i] # 0 THEN demands[route[i]] ELSE 0])

fitness_from_routes(routes, coords, demands, vehicle_capacity, penalty_coeff) ==
    LET total_distance ==
            FnSum([k \in 1..Len(routes) |->
                FnSum([i \in Legs(routes[k]) |->
                    euclidean(coords[routes[k][i]], coords[routes[k][i + 1]])])])
        penalty ==
            FnSum([k \in 1..Len(routes) |->
                LET load == RouteLoad(routes[k], demands)
                IN IF load > vehicle_capacity
                   THEN penalty_coeff * (load - vehicle_capacity) ELSE 0])
    IN total_distance + penalty

\* what the build may do with the equal elements of x: either order if
\* there are any, and nothing to choose if there are none
TieOrdersOf(x) ==
    IF \E i, j \in DOMAIN x : i # j /\ x[i] = x[j] THEN TieOrders ELSE {"low"}

\* the arguments of one evaluation: an instance of n customers
InitCall ==
    \E n \in 0..MaxCust :
    \E x \in [1..n -> 0..MaxKey] : \E at \in [1..n -> Points] :
    \E dm \in [1..n -> 0..MaxDemand] :
    \E cap \in 0..MaxCap : \E coeff \in 0..MaxPenalty :
    \E ties \in TieOrdersOf(x) :
        call = [pc |-> "args", x |-> x, ties |-> ties,
                coords |-> [i \in 0..n |-> IF i = 0 THEN Depot ELSE at[i]],
                demands |-> [i \in 0..n |-> IF i = 0 THEN 0 ELSE dm[i]],
                vehicle_capacity |-> cap, penalty_coeff |-> coeff]

\* routes = decode_random_keys(x, 0, coords, demands, capacity)
Decode ==
    /\ call.pc = "args"
    /\ \E routes \in {decode_random_keys(call.x, 0, call.coords, call.demands,
                                         call.vehicle_capacity, call.ties)} :
          call' = [pc |-> "decoded", x |-> call.x, ties |-> call.ties,
                   coords |-> call.coords,
                   demands |-> call.demands,
                   vehicle_capacity |-> call.vehicle_capacity,
                   penalty_coeff |-> call.penalty_coeff, routes |-> routes]
    /\ UNCHANGED <<jobVars, gwo, ws>>

\* fitness_from_routes(routes, coords, demands, capacity, penalty), called
\* with the capacity the routes were built for or with another one, at
\* least 1
Fitness ==
    /\ call.pc = "decoded"
    /\ \E cap \in 1..MaxCap :
       \E f \in {fitness_from_routes(call.routes, call.coords, call.demands,
                                     cap, call.penalty_coeff)} :
          call' = [pc |-> "evaluated", x |-> call.x, ties |-> call.ties,
                   coords |-> call.coords,
                   demands |-> call.demands,
                   vehicle_capacity |-> call.vehicle_capacity,
                   penalty_coeff |-> call.penalty_coeff, routes |-> call.routes,
                   fitness_capacity |-> cap, fitness |-> f]
    /\ UNCHANGED <<jobVars, gwo, ws>>

NextObjective == Decode \/ Fitness

InitObjective ==
    InitJobs({}, {}, {}) /\ gwo = <<>> /\ ws = NoSocket /\ InitCall
SpecObjective == InitObjective /\ [][NextObjective]_vars

\* ------------------------------------------------ VRPOptimizer: the result
MaxId == 3            \* caller-supplied customer ids are 0..MaxId or FarId
FarId == 7            \* an id beyond every internal index

CallerIds == 0..MaxId \cup {FarId}

\* self.id_map = {0: 0}; for i, c in enumerate(customers, 1): id_map[i] = c["id"]
IdMapOfIndices(ids) == [i \in 0..Len(ids) |-> i]
IdMap(ids) == [i \in 0..Len(ids) |-> IF i = 0 THEN 0 ELSE ids[i]]
\* dict.get(key, default)
Get(d, key, default) == IF key \in DOMAIN d THEN d[key] ELSE default

\* [self.id_map.get(idx, idx) for idx in route], for every route
MappedRoutes(id_map, internal_routes) ==
    [k \in 1..Len(internal_routes) |->
        [i \in 1..Len(internal_routes[k]) |->
            Get(id_map, internal_routes[k][i], internal_routes[k][i])]]

\* round(distance, 2) of a whole number of units is that number
calculate_route_details(routes, coords, demands) ==
    [k \in 1..Len(routes) |->
        [route |-> routes[k],
         distance |-> FnSum([i \in 1..(Len(routes[k]) - 1) |->
                         euclidean(coords[routes[k][i]], coords[routes[k][i + 1]])]),
         load |-> RouteLoad(routes[k], demands)]]

\* the places of the customers: customer i is at one of the points above,
\* a customer after the third at a point already taken
PlaceOf ==
    [i \in 1..MaxCust |->
        CASE i % 3 = 1 -> <<3, 0>> [] i % 3 = 2 -> <<0, 4>> [] OTHER -> <<3, 4>>]

\* a VRPOptimizer constructed for n customers with the given ids, whose
\* GreyWolfOptimizer has returned best_solution
InitResult ==
    \E n \in 0..MaxCust :
    \E ids \in [1..n -> CallerIds] : \E best \in [1..n -> 0..MaxKey] :
    \E dm \in [1..n -> 0..MaxDemand] : \E cap \in 1..MaxCap :
    \E ties \in TieOrdersOf(best) :
        call = [pc |-> "optimized", ids |-> ids, best_solution |-> best,
                ties |-> ties,
                coords |-> [i \in 0..n |-> IF i = 0 THEN Depot ELSE PlaceOf[i]],
                demands |-> [i \in 0..n |-> IF i = 0 THEN 0 ELSE dm[i]],
                vehicle_capacity |-> cap, id_map |-> IdMap(ids),
                internal_routes |-> <<>>, routes |-> <<>>,
                route_details |-> <<>>]

\* internal_routes = decode_random_keys(best_solution, 0, ...)
DecodeBest ==
    /\ call.pc = "optimized"
    /\ call' = [call EXCEPT !.pc = "decoded",
                   !.internal_routes =
                       decode_random_keys(call.best_solution, 0, call.coords,
                                          call.demands, call.vehicle_capacity,
                                          call.ties)]
    /\ UNCHANGED <<jobVars, gwo, ws>>
\* routes: the internal routes mapped through id_map
MapRoutes ==
    /\ call.pc = "decoded"
    /\ call' = [call EXCEPT !.pc = "mapped",
                   !.routes = MappedRoutes(call.id_map, call.internal_routes)]
    /\ UNCHANGED <<jobVars, gwo, ws>>
\* route_details = calculate_route_details(internal_routes, ...), and the
\* OptimizationResult is returned
ReturnResult ==
    /\ call.pc = "mapped"
    /\ call' = [call EXCEPT !.pc = "returned",
                   !.route_details =
                       calculate_route_details(call.internal_routes,
                                               call.coords, call.demands)]
    /\ UNCHANGED <<jobVars, gwo, ws>>

NextResult == DecodeBest \/ MapRoutes \/ ReturnResult
InitVrpResult ==
    InitJobs({}, {}, {}) /\ gwo = <<>> /\ ws = NoSocket /\ InitResult
SpecResult == InitVrpResult /\ [][NextResult]_vars

\* --------------------------------------------- POST /jobs: the configuration
\* vehicleCapacity: int = Field(default=100, ge=1)
ValidCapacityFromZero(c) == c >= 0
ValidCapacity(c) == c >= 1

\* the request body is parsed into a JobCreate, whose config is an
\* OptimizationConfig: a body that fails validation is answered with 422
\* and the endpoint function is not called
PostJobs ==
    /\ call.pc \in {"idle", "rejected"}
    /\ \E c \in 0..MaxCap :
          call' = [pc |-> IF ValidCapacity(c) THEN "validated" ELSE "rejected",
                   vehicleCapacity |-> c, job |-> 0]
    /\ UNCHANGED <<dbVars, active, queue, runnerVars, cpc, gwo, ws>>
    /\ NoReturn /\ HistNext
\* job_manager.create_job(config=request.config): the row of job j is
\* written with that config
CreateValidated(j) ==
    /\ call.pc = "validated"
    /\ CreateJob(j) /\ HistNext
    /\ call' = [call EXCEPT !.pc = "created", !.job = j]
    /\ UNCHANGED <<gwo, ws>>

\* the coordinator behind the endpoint, no caller cancelling
NextAdmission ==
    \/ PostJobs
    \/ \E j \in Jobs : CreateValidated(j)
    \/ \E j \in Jobs : StartJobCheck(j) /\ JobStep
    \/ \E r \in Runners : StartJobRegister(r) /\ JobStep
    \/ \E r \in Runners : StartJobSubmit(r) /\ JobStep
    \/ \E r \in Runners : WorkerTake(r) /\ JobStep
    \/ \E j \in Jobs : RunSyncCheck(j) /\ JobStep
    \/ \E r \in Runners : RunSyncRegister(r) /\ JobStep
    \/ \E r \in Runners : RunStart(r) /\ JobStep
    \/ \E r \in Runners : RunInit(r) /\ JobStep
    \/ \E r \in Runners : RunLoopTop(r) /\ JobStep
    \/ \E r \in Runners : RunIter(r) /\ JobStep
    \/ \E r \in Runners : RunRaise(r) /\ JobStep
    \/ \E r \in Runners : RunPostOpt(r) /\ JobStep
    \/ \E r \in Runners : RunSave(r) /\ JobStep
    \/ \E r \in Runners : RunComplete(r) /\ JobStep
    \/ \E r \in Runners : RunExcept(r) /\ JobStep
    \/ \E r \in Runners : RunFinally(r) /\ JobStep

InitAdmission == InitJobs(1..NumJobs, {}, 1..MaxRunners) /\ NoAlg
SpecAdmission == InitAdmission /\ [][NextAdmission]_vars

\* ================================================================ claims
\* runners of job j whose run() is in progress
RunningOn(j) == {r \in Runners : rJob[r] = j /\ Executing(r)}
\* the step admits a start_job / run_job_sync call on j: its JobRunner
\* is constructed
AdmitsStart(j) ==
    \E r \in Runners : rpc[r] = "none" /\ rpc'[r] = "s_new" /\ rJob'[r] = j
AdmitsSync(j) ==
    \E r \in Runners : rpc[r] = "none" /\ rpc'[r] = "y_new" /\ rJob'[r] = j

\* C1: a terminal status is final: once the persisted status of a job is
\* Completed, Failed or Cancelled, no step changes it.
C1_TerminalIsFinal ==
    [][\A j \in Jobs : status[j] \in Terminal => status'[j] = status[j]]_vars

\* C2: at most one execution of JobRunner.run is in progress for a job id.
C2_OneWorkerPerJob ==
    \A j \in Jobs : Cardinality(RunningOn(j)) <= 1

\* C3: start_job on a job whose persisted status is not Pending is never
\* admitted; it returns the invalid-state error, and the step that returns
\* it leaves the database, the registry, the pool's queue and every runner
\* as they were.
C3_StartRejectsNonPending ==
    [][\A j \in Jobs :
         (status[j] \notin {PENDING, ABSENT}) =>
            /\ ~AdmitsStart(j)
            /\ (last'.op = "start_job" /\ last'.job = j /\ rpc' = rpc)
                  => /\ last'.res = "ValueError"
                     /\ UNCHANGED <<dbVars, active, queue, runnerVars>>]_vars

\* C3 witness: start_job has just been refused on a Running job.
C3_Witness ==
    \E j \in Jobs : last = Ret("start_job", j, "ValueError") /\ status[j] = RUNNING

\* C4: when start_job returns successfully the persisted status of the job
\* is Running and the job is in the active-job registry.
C4_StartedIsRunning ==
    \A j \in Jobs :
        last = Ret("start_job", j, "ok") => status[j] = RUNNING /\ active[j] # NoRunner

\* C5: run_job_sync on a job whose status is Running, Failed or Cancelled is
\* not admitted: no runner is constructed for it.
C5_SyncRejectsNonPending ==
    [][\A j \in Jobs :
         status[j] \in {RUNNING, FAILED, CANCELLED} => ~AdmitsSync(j)]_vars

\* C6: a job whose cancel_job reached its runner before the test that
\* follows the optimizer ends Cancelled with no Result stored: when the
\* runner that saw the cancellation is about to return and no other runner
\* of the job is alive, the status is Cancelled and job_results has no row.
C6_CancelledHasNoResult ==
    \A r \in Runners :
        (rpc[r] = "fin_cancel" /\ LiveOn(rJob[r]) = {r})
            => status[rJob[r]] = CANCELLED /\ result[rJob[r]] = NoRunner

\* C7: once cancel_job has set the flag of a runner, the optimizer of that
\* runner begins no new iteration.
C7_NoIterationAfterCancel ==
    [][\A r \in Runners :
         rCancelled[r] => ~(rpc[r] = "loop" /\ rpc'[r] = "iter")]_vars

\* the step belongs to the cancel_job call on j
CancelStep(j) == cpc'[j] # cpc[j] \/ (last'.op = "cancel_job" /\ last'.job = j)

\* C8: cancel_job on a settled job (Completed or Failed, run() returned),
\* which stays settled while the call lasts, finds no registry entry, does
\* not go on to overwrite the status, returns False, and its steps leave
\* status, error message and Result of the job as they were.
C8_CancelSettledIsNoOp ==
    [][\A j \in Jobs :
         (Settled(j) /\ (cpc[j] = "idle" \/ cQuiet[j]) /\ CancelStep(j)) =>
            /\ last' # Ret("cancel_job", j, "True")
            /\ cpc'[j] # "write"
            /\ cpc'[j] = "idle" => last' = Ret("cancel_job", j, "False")
            /\ status'[j] = status[j]
            /\ errmsg'[j] = errmsg[j]
            /\ result'[j] = result[j]]_vars

\* C8 witness: cancel_job has just returned False on a Completed job whose
\* Result is stored, and on a Failed job whose message is recorded.
C8_Witness ==
    \E j \in Jobs :
        /\ last = Ret("cancel_job", j, "False")
        /\ Settled(j)
        /\ \/ status[j] = COMPLETED /\ result[j] # NoRunner
           \/ status[j] = FAILED /\ errmsg[j]

\* a pool worker begins to execute runner r
PoolRuns(r) == rMode[r] = "bg" /\ rpc[r] = "queued" /\ rpc'[r] = "run"

\* C9: the cancel_job that found no registry entry and read Pending or
\* Running marks the job Cancelled and returns True; a job it turned from
\* Pending to Cancelled is afterwards refused by start_job, and no pool
\* worker begins to execute it.
C9_DirectCancelPreventsRun ==
    [][/\ \A j \in Jobs :
            (cpc[j] = "write" /\ cpc'[j] = "idle")
                => status'[j] = CANCELLED /\ last' = Ret("cancel_job", j, "True")
       /\ \A j \in Jobs : cDirect[j] => ~AdmitsStart(j)
       /\ \A r \in Runners : PoolRuns(r) => ~cDirect[rJob[r]]]_vars

\* C10: the registry holds only runners whose run() has not returned, each
\* under its own job id, and it is empty whenever no runner is alive.
C10_RegistryHoldsLiveRunners ==
    /\ \A j \in Jobs :
          active[j] # NoRunner => Live(active[j]) /\ rJob[active[j]] = j
    /\ (\A r \in Runners : ~Live(r)) => (\A j \in Jobs : active[j] = NoRunner)

\* C10 witness: a run() that failed has returned and the registry is empty.
C10_Witness ==
    \E r \in Runners :
        /\ rpc[r] = "done"
        /\ status[rJob[r]] = FAILED
        /\ \A q \in Runners : ~Live(q)
        /\ \A j \in Jobs : active[j] = NoRunner

\* the fields of every runner but r
OthersOf(r, f) == [q \in Runners \ {r} |-> f[q]]
\* everything that belongs to a job other than j, and to runners other
\* than r: rows, registry entries, work queue, runner objects
Elsewhere(j, r) ==
    <<[i \in Jobs \ {j} |-> <<status[i], errmsg[i], result[i], active[i]>>],
      queue, OthersOf(r, rJob), OthersOf(r, rpc), OthersOf(r, rCancelled),
      OthersOf(r, rGwo), OthersOf(r, rIter)>>

\* C11: an exception raised inside the optimization of one job is
\* contained: the runner that caught it marks its own job Failed with the
\* message and removes its job's registry entry, and no step of that
\* exception path changes the row, the registry entry or a runner of any
\* other job, nor the work queue.
C11_FailureIsContained ==
    [][\A r \in Runners :
          LET j == rJob[r] IN
          /\ (rpc[r] \in {"optimize", "iter"} /\ rpc'[r] = "except") =>
                /\ UNCHANGED <<dbVars, active>>
                /\ Elsewhere(j, r)' = Elsewhere(j, r)
          /\ (rpc[r] = "except" /\ rpc'[r] # "except") =>
                /\ rpc'[r] = "fin_exc"
                /\ status'[j] = FAILED /\ errmsg'[j]
                /\ active' = active
                /\ Elsewhere(j, r)' = Elsewhere(j, r)
          /\ (rpc[r] = "fin_exc" /\ rpc'[r] # "fin_exc") =>
                /\ rpc'[r] = "done"
                /\ active'[j] = NoRunner
                /\ UNCHANGED dbVars
                /\ Elsewhere(j, r)' = Elsewhere(j, r)]_vars

\* a runner has failed and returned, its job is Failed with a message and
\* unregistered, while another job is in the middle of its optimization
C11_Witness ==
    \E r \in Runners : \E q \in Runners :
        /\ rpc[r] = "done" /\ rpc[q] = "iter" /\ rJob[q] # rJob[r]
        /\ status[rJob[r]] = FAILED /\ errmsg[rJob[r]]
        /\ active[rJob[r]] = NoRunner
        /\ status[rJob[q]] = RUNNING /\ active[rJob[q]] = q

\* the status run() writes on the way to each of its three exits
Outcome(pc) ==
    CASE pc = "fin_ok" -> COMPLETED
      [] pc = "fin_cancel" -> CANCELLED
      [] pc = "fin_exc" -> FAILED

\* C12: the job record is consistent at every instant and each execution
\* records one terminal outcome: whenever the status is Completed a
\* Result is stored, whenever it is Failed a message is recorded; a run
\* writes its terminal status in the step that takes it to its exit, and
\* from there it only returns, writing nothing more to the database.
C12_OutcomeRecordedOnce ==
    /\ [](\A j \in Jobs :
            /\ status[j] = COMPLETED => result[j] # NoRunner
            /\ status[j] = FAILED => errmsg[j])
    /\ [][\A r \in Runners :
            /\ (rpc'[r] \in {"fin_ok", "fin_cancel", "fin_exc"} /\ rpc'[r] # rpc[r]) =>
                  /\ rpc[r] \in {"complete", "postopt", "except"}
                  /\ status'[rJob[r]] = Outcome(rpc'[r])
            /\ (rpc[r] \in {"fin_ok", "fin_cancel", "fin_exc"} /\ rpc'[r] # rpc[r]) =>
                  /\ rpc'[r] = "done"
                  /\ UNCHANGED dbVars]_vars

\* a run has just marked its job Completed, with its own Result stored
C12_Witness ==
    \E r \in Runners :
        /\ rpc[r] = "fin_ok"
        /\ status[rJob[r]] = COMPLETED
        /\ result[rJob[r]] = r

\* C13: once a job is Completed with a stored Result, the Result is
\* immutable and the job is not executed again: no step replaces the
\* stored Result, no runner of the job begins an optimization, and no
\* start_job or run_job_sync call on it constructs a runner.
C13_CompletedIsFrozen ==
    [][\A j \in Jobs :
          (status[j] = COMPLETED /\ result[j] # NoRunner) =>
             /\ result'[j] = result[j]
             /\ ~AdmitsStart(j) /\ ~AdmitsSync(j)
             /\ \A r \in Runners :
                   rJob[r] = j => ~(rpc[r] = "optimize" /\ rpc'[r] = "loop")]_vars

\* jobs whose optimizer is executing: a runner of theirs is inside
\* GreyWolfOptimizer.optimize
Optimizing == {rJob[r] : r \in {q \in Runners : rpc[q] \in {"loop", "iter"}}}

\* C15: the pool bounds job execution: at any time at most PoolSize jobs
\* are executing their optimizer, whether they were started by start_job
\* or by run_job_sync.
C15_PoolBoundsExecution == Cardinality(Optimizing) <= PoolSize

PoolNeverStalls ==
    (\E r \in Runners : Live(r)) => (\E r \in Runners : ENABLED RunnerStep(r))

\* the fitness values of a convergence trace never rise
NonIncreasing(h) ==
    \A k \in 1..(Len(h) - 1) : h[k + 1].fitness <= h[k].fitness

\* C16: the best-fitness values of the convergence trace are
\* non-increasing: the alpha's fitness never rises, the alpha is replaced
\* only by a position of strictly smaller fitness, and every entry
\* appended to the trace is the alpha's fitness at that moment.
C16_BestFitnessNeverRises ==
    /\ [](\A g \in DOMAIN gwo : NonIncreasing(gwo[g].best_history))
    /\ [][\A g \in DOMAIN gwo :
             LET o == gwo[g]
                 n == gwo'[g]
             IN o.pc # "new" =>
                  /\ n.alpha_fit <= o.alpha_fit
                  /\ n.alpha # o.alpha => n.alpha_fit < o.alpha_fit
                  /\ Len(n.best_history) > Len(o.best_history) =>
                        n.best_history[Len(n.best_history)].fitness = n.alpha_fit]_vars

\* a finished run whose trace has a strict improvement, and whose last
\* population is worse than the alpha it kept
C16_Witness ==
    \E g \in DOMAIN gwo :
        /\ gwo[g].pc = "done"
        /\ Len(gwo[g].best_history) = MaxGwoIter + 1
        /\ \E k \in 1..MaxGwoIter :
              gwo[g].best_history[k + 1].fitness < gwo[g].best_history[k].fitness
        /\ gwo[g].fitness[1] > gwo[g].alpha_fit

\* C17: the trace has one entry per completed iteration plus the initial
\* one: its entries carry the iteration numbers 0, 1, 2, ... in order; a
\* run whose loop ran out returns max_iter + 1 entries, and a run that
\* saw the cancel flag at the top of iteration t returns entries 0..t-1.
C17_OneEntryPerIteration ==
    \A g \in DOMAIN gwo :
        LET o == gwo[g] IN
        o.pc = "done" =>
            /\ \A k \in 1..Len(o.best_history) : o.best_history[k].iteration = k - 1
            /\ Len(o.best_history) = IF o.broke > 0 THEN o.broke ELSE o.max_iter + 1

\* a run that was cancelled during its second iteration or later and
\* stopped short of max_iter
C17_Witness ==
    \E g \in DOMAIN gwo :
        /\ gwo[g].pc = "done"
        /\ gwo[g].broke >= 2
        /\ gwo[g].broke <= gwo[g].max_iter
        /\ Len(gwo[g].best_history) = gwo[g].broke

Places(routes) ==
    UNION {{<<k, i>> : i \in 1..Len(routes[k])} : k \in 1..Len(routes)}

\* C19: decode_random_keys returns routes in which every customer 1..n
\* stands at exactly one place, and every route starts and ends with the
\* depot index.
C19_RoutesPartitionCustomers ==
    call.pc \in {"decoded", "evaluated"} =>
        /\ \A c \in 1..Len(call.x) :
              Cardinality({p \in Places(call.routes) :
                              call.routes[p[1]][p[2]] = c}) = 1
        /\ \A k \in 1..Len(call.routes) :
              /\ Len(call.routes[k]) >= 2
              /\ call.routes[k][1] = 0
              /\ call.routes[k][Len(call.routes[k])] = 0

\* MaxCust customers, two of them with equal keys, decoded into more
\* than one route
C19_Witness ==
    /\ call.pc = "decoded"
    /\ Len(call.x) = MaxCust
    /\ \E a \in 1..MaxCust : \E b \in 1..MaxCust : a # b /\ call.x[a] = call.x[b]
    /\ Len(call.routes) >= 2

\* the legs <<k, i>> of the routes: from node i to node i + 1 of route k
AllLegs(routes) ==
    UNION {{<<k, i>> : i \in 1..(Len(routes[k]) - 1)} : k \in 1..Len(routes)}
\* sum of the Euclidean lengths of all legs
TotalDistance(routes, coords) ==
    FnSum([p \in AllLegs(routes) |->
              euclidean(coords[routes[p[1]][p[2]]], coords[routes[p[1]][p[2] + 1]])])
\* demand carried on route k
LoadOf(routes, demands, k) ==
    FnSum([p \in {q \in Places(routes) : q[1] = k} |-> demands[routes[p[1]][p[2]]]])
Excess(load, cap) == IF load > cap THEN load - cap ELSE 0

\* C20: fitness_from_routes equals the sum of the Euclidean leg distances
\* plus, per route, penalty_coeff * max(0, load - capacity); with no
\* route overloaded it equals the total distance.
C20_FitnessIsDistancePlusPenalty ==
    call.pc = "evaluated" =>
        LET R == call.routes
            dist == TotalDistance(R, call.coords)
            over == [k \in 1..Len(R) |->
                        Excess(LoadOf(R, call.demands, k), call.fitness_capacity)]
        IN /\ call.fitness =
                 dist + FnSum([k \in 1..Len(R) |-> call.penalty_coeff * over[k]])
           /\ (\A k \in 1..Len(R) : over[k] = 0) => call.fitness = dist

\* an evaluation with an overloaded route, another route within capacity
\* and a positive coefficient: the fitness exceeds the distance
C20_Witness ==
    /\ call.pc = "evaluated"
    /\ call.penalty_coeff > 0
    /\ \E k \in 1..Len(call.routes) :
          LoadOf(call.routes, call.demands, k) > call.fitness_capacity
    /\ \E k \in 1..Len(call.routes) :
          /\ Len(call.routes[k]) > 2
          /\ LoadOf(call.routes, call.demands, k) <= call.fitness_capacity
    /\ call.fitness > TotalDistance(call.routes, call.coords)

\* C21: with a progress callback and an interval k >= 1, the callback
\* has been called, in this order, once with iteration 0 (as soon as the
\* initial population is ranked, before the first iteration) and once
\* for each completed iteration t with t mod k = 0, with the best
\* fitness recorded for that iteration, and for nothing else: not for
\* other iterations and not for iterations a cancellation skipped.
Reported(o) ==
    LET due(e) == e.iteration = 0 \/ e.iteration % o.progress_interval = 0
        seen == SelectSeq(o.best_history, due)
    IN [i \in DOMAIN seen |->
           [iteration |-> seen[i].iteration, best_fitness |-> seen[i].fitness]]
C21_CallbackCadence ==
    \A g \in GRuns :
        gwo[g].progress_callback => gwo[g].progress = Reported(gwo[g])
\* a cancelled run of three iterations with interval 2 that reported
\* iterations 0 and 2 only
C21_Witness ==
    \E g \in GRuns :
        /\ gwo[g].progress_callback /\ gwo[g].pc = "done"
        /\ gwo[g].progress_interval = 2 /\ gwo[g].broke = 3
        /\ Len(gwo[g].progress) = 2 /\ gwo[g].progress[2].iteration = 2

\* C22: on a /ws/optimize connection the progress messages sent carry
\* non-decreasing iteration numbers; the terminal result message is the
\* last message sent, and from the moment it is sent no progress update
\* is left in the queue or in the consumer's hands.
IsProgress(m) == "iter" \in DOMAIN m
IsResult(m) == "done" \in DOMAIN m
ResultSent == \E i \in DOMAIN ws.sent : IsResult(ws.sent[i])
C22_ProgressInOrderThenResult ==
    ws.pc # "none" =>
        /\ \A i, j \in DOMAIN ws.sent :
              (i < j /\ IsProgress(ws.sent[i]) /\ IsProgress(ws.sent[j]))
                  => ws.sent[i].iter <= ws.sent[j].iter
        /\ \A i \in DOMAIN ws.sent : IsResult(ws.sent[i]) => i = Len(ws.sent)
        /\ ResultSent => ws.progress_queue = <<>> /\ ws.held = <<>>
\* a run of two iterations whose result was sent after all three of its
\* progress messages
C22_Witness ==
    /\ ws.pc = "closed" /\ ResultSent
    /\ Len(ws.sent) = 4 /\ ws.sent[3].iter = 2
    /\ gwo[1].max_iter = 2

\* C23: the queue between on_progress and the consumer has a capacity:
\* whenever updates are waiting in it, the queue was made with a maximal
\* size of at least one update and holds no more updates than that (an
\* update arriving at a full queue being dropped).
C23_ChannelIsBounded ==
    (ws.pc # "none" /\ ws.progress_queue # <<>>) =>
        ws.maxsize >= 1 /\ Len(ws.progress_queue) <= ws.maxsize

\* C24: when the customers' ids are distinct and none is 0, the routes of
\* the result begin and end with the depot id 0, every stop in between
\* is the caller's id of the customer the decoder put there, and every
\* caller id stands at exactly one stop of all the routes.
DistinctIds(ids) ==
    /\ \A i \in DOMAIN ids : ids[i] # 0
    /\ \A i, j \in DOMAIN ids : i # j => ids[i] # ids[j]
\* the positions <<route, index>> strictly between the two ends of a route
Stops(routes) ==
    {p \in (1..Len(routes)) \X (1..(MaxCust + 2)) :
        1 < p[2] /\ p[2] < Len(routes[p[1]])}
C24_RoutesInCallerIds ==
    (call.pc \in {"mapped", "returned"} /\ DistinctIds(call.ids)) =>
        /\ \A k \in 1..Len(call.routes) :
              /\ call.routes[k][1] = 0
              /\ call.routes[k][Len(call.routes[k])] = 0
              /\ \A i \in 2..(Len(call.routes[k]) - 1) :
                    call.routes[k][i] = call.ids[call.internal_routes[k][i]]
        /\ \A c \in DOMAIN call.ids :
              Cardinality({p \in Stops(call.routes) :
                  call.routes[p[1]][p[2]] = call.ids[c]}) = 1
\* three customers with ids 7, 1, 3 served on two routes
C24_Witness ==
    /\ call.pc = "returned" /\ call.ids = <<7, 1, 3>>
    /\ Len(call.routes) = 2 /\ call.routes[1][2] = 7

\* C30: route_details[i].route is the stop sequence routes[i], in the
\* same ids, for every route of a result.
C30_DetailsMatchRoutes ==
    call.pc = "returned" =>
        /\ Len(call.route_details) = Len(call.routes)
        /\ \A i \in 1..Len(call.routes) :
              call.route_details[i].route = call.routes[i]

\* C25: a POST /jobs request whose vehicleCapacity is below 1 is rejected
\* while no job record exists for it; every job that has a record, a
\* JobRunner, a registry entry or a place in the pool's queue was created
\* from a request with a capacity of at least 1.
Known(j) ==
    \/ status[j] # ABSENT
    \/ active[j] # NoRunner
    \/ \E r \in Runners : rJob[r] = j
C25_ZeroCapacityNeverAdmitted ==
    /\ call.pc = "rejected" => \A j \in Jobs : ~Known(j)
    /\ \A j \in Jobs :
          Known(j) => /\ call.pc = "created" /\ call.job = j
                      /\ call.vehicleCapacity >= 1
    /\ \A i \in DOMAIN queue : rJob[queue[i]] # 0
\* a request with capacity 0 has been rejected
C25_Witness ==
    /\ call.pc = "rejected" /\ call.vehicleCapacity = 0
    /\ \A j \in Jobs : status[j] = ABSENT

\* the customers of the routes in the order they are visited
Inner(route) == SubSeq(route, 2, Len(route) - 1)
RECURSIVE VisitsOf(_, _)
VisitsOf(routes, k) ==
    IF k = 0 THEN <<>> ELSE VisitsOf(routes, k - 1) \o Inner(routes[k])
Visits(routes) == VisitsOf(routes, Len(routes))
\* the load of a route after its stop at index i
LoadUpTo(route, i, demands) == FnSum([m \in 2..i |-> demands[route[m]]])

\* C26: decoding is first-fit in visiting order.  The customers are
\* visited in ascending key order and none is left out; a customer that
\* is not the first of its route fitted into what the route carried; a
\* customer that opens a route did not fit into the route before it (the
\* first customer of all fitted into the empty first route); and a route
\* is over capacity only if it serves one customer whose own demand
\* exceeds the capacity.
C26_FirstFitInKeyOrder ==
    call.pc \in {"decoded", "evaluated"} =>
        LET routes == call.routes
            visits == Visits(routes)
            cap == call.vehicle_capacity
        IN /\ \A c \in 1..Len(call.x) : \E i \in DOMAIN visits : visits[i] = c
           /\ \A i, j \in DOMAIN visits :
                 i < j => call.x[visits[i]] <= call.x[visits[j]]
           /\ \A k \in 1..Len(routes) : \A i \in 2..(Len(routes[k]) - 1) :
                 IF i > 2
                 THEN LoadUpTo(routes[k], i, call.demands) <= cap
                 ELSE IF k > 1
                 THEN RouteLoad(routes[k - 1], call.demands)
                          + call.demands[routes[k][2]] > cap
                 ELSE call.demands[routes[k][2]] <= cap
           /\ \A k \in 1..Len(routes) :
                 RouteLoad(routes[k], call.demands) > cap =>
                     /\ Len(routes[k]) = 3
                     /\ call.demands[routes[k][2]] > cap
\* capacity 1: a customer of demand 2 has a route of its own, and two
\* customers share another route
C26_Witness ==
    /\ call.pc = "decoded" /\ call.vehicle_capacity = 1
    /\ \E k \in 1..Len(call.routes) :
          Len(call.routes[k]) = 3 /\ call.demands[call.routes[k][2]] = 2
    /\ \E k \in 1..Len(call.routes) : Len(call.routes[k]) = 4

\* C27: of two customers with equal keys the one with the lower index
\* is visited first.
C27_TiesInIndexOrder ==
    call.pc \in {"decoded", "evaluated"} =>
        LET visits == Visits(call.routes)
        IN \A i, j \in DOMAIN visits :
              (i < j /\ call.x[visits[i]] = call.x[visits[j]])
                  => visits[i] < visits[j]

\* C29: when there is at least one customer, every decoded route visits
\* at least one customer.
C29_NoEmptyRoute ==
    (call.pc \in {"decoded", "evaluated"} /\ Len(call.x) >= 1) =>
        \A k \in 1..Len(call.routes) : Len(call.routes[k]) >= 3

\* C28: a job whose runner was flagged by cancel_job through the registry
\* (the only caller of JobRunner.cancel, which then returns True) does
\* not end Completed with a Result stored.  Stated for jobs that only
\* ever had that one runner; the flag is looked at until run() returns.
C28_AcknowledgedCancelIsHonoured ==
    \A r \in Runners :
        (/\ rCancelled[r] /\ Live(r)
         /\ \A q \in Runners : rJob[q] = rJob[r] => q = r)
            => ~(status[rJob[r]] = COMPLETED /\ result[rJob[r]] # NoRunner)

====
